---- MODULE Spec2Model ----
(***************************************************************************)
(* State-machine model of the array-backed max binary heap of src/src/lib.rs *)
(* (BinaryHeap<T>) and of its scoped mutable handle                        *)
(* (SmartHeapMutatingPointer).  Indices are 0-based as in the source; the  *)
(* Vec `items` is a TLA+ sequence read through Get/At.  Option<T> is       *)
(* <<>> (None) or <<v>> (Some(v)).  Elements are integers, as in the       *)
(* tests of the source.                                                    *)
(***************************************************************************)
EXTENDS Integers, Sequences, FiniteSets, TLC

VARIABLES items, handle, panicked, lastOp, at_peek_mut, wrote, pushes, removals, phase, drained

vars == <<items, handle, panicked, lastOp, at_peek_mut, wrote, pushes, removals, phase, drained>>

\* ---- bounds ----
MaxLen == 6
MaxVal == 2
MaxPushes == 8
ScenarioLen == 5
ScenarioMax == 5

Values == 0..MaxVal

\* ---- Option<T> ----
None == <<>>
Some(v) == <<v>>
is_some(o) == o /= None
unwrap(o) == o[1]

\* Option<&T> `>` : None is less than every Some; Some(a) > Some(b) iff a > b
OptGt(a, b) == is_some(a) /\ (b = None \/ unwrap(a) > unwrap(b))

\* ---- Vec<T> primitives ----
At(s, i) == s[i + 1]
Get(s, i) == IF i >= 0 /\ i < Len(s) THEN Some(At(s, i)) ELSE None
\* a swap that copies b over a and leaves b as it was
swap_clobbers(s, a, b) == [k \in 1..Len(s) |-> IF k = a + 1 THEN s[b + 1] ELSE s[k]]

swap(s, a, b) == [k \in 1..Len(s) |-> IF k = a + 1 THEN s[b + 1] ELSE IF k = b + 1 THEN s[a + 1] ELSE s[k]]
vec_pop(s) == SubSeq(s, 1, Len(s) - 1)

len == Len(items)
is_empty == len = 0

\* the parent taken as i / 2
index_of_parent_half(i) == i \div 2

\* (f64::floor((i as f64 - 1.0) / 2.0)) as usize : floor division, then the
\* saturating float-to-usize cast (a negative float becomes 0)
index_of_parent(i) == LET f == (i - 1) \div 2 IN IF f < 0 THEN 0 ELSE f

\* sift_up with an `if` in place of the `while`: at most one swap
RECURSIVE sift_up_single_swap(_, _)
sift_up_single_swap(s, index_of_swimmer) ==
    LET p == index_of_parent(index_of_swimmer) IN
    IF At(s, index_of_swimmer) > At(s, p)
    THEN swap(s, p, index_of_swimmer)
    ELSE s

\* the while loop of sift_up, from the swimmer's current index
RECURSIVE sift_up_loop(_, _)
sift_up_loop(s, index_of_swimmer) ==
    LET p == index_of_parent(index_of_swimmer) IN
    IF At(s, index_of_swimmer) > At(s, p)
    THEN sift_up_loop(swap(s, p, index_of_swimmer), p)
    ELSE s

sift_up(s) == sift_up_loop(s, Len(s) - 1)

\* sift_down with `>=` for the right child: the right child wins a tie
RECURSIVE sift_down_right_on_tie(_, _)
sift_down_right_on_tie(s, start_index) ==
    LET left_child_index == 2 * start_index + 1
        right_child_index == 2 * start_index + 2
        left_child_value == Get(s, left_child_index)
        right_child_value == Get(s, right_child_index)
        start_value == Get(s, start_index)
        take_left == is_some(left_child_value) /\ OptGt(left_child_value, start_value)
        largest_value == IF take_left THEN left_child_value ELSE start_value
        take_right == /\ is_some(right_child_value)
                      /\ take_left
                      /\ ~OptGt(largest_value, right_child_value)
        take_right_alone == is_some(right_child_value) /\ OptGt(right_child_value, largest_value)
        largest_index == IF take_right \/ take_right_alone THEN right_child_index
                         ELSE IF take_left THEN left_child_index ELSE start_index
    IN  IF largest_index /= start_index
        THEN sift_down_right_on_tie(swap(s, start_index, largest_index), largest_index)
        ELSE s

\* sift_down with the right child compared against the start value
RECURSIVE sift_down_right_vs_start(_, _)
sift_down_right_vs_start(s, start_index) ==
    LET left_child_index == 2 * start_index + 1
        right_child_index == 2 * start_index + 2
        left_child_value == Get(s, left_child_index)
        right_child_value == Get(s, right_child_index)
        start_value == Get(s, start_index)
        take_left == is_some(left_child_value) /\ OptGt(left_child_value, start_value)
        take_right == is_some(right_child_value) /\ OptGt(right_child_value, start_value)
        largest_index == IF take_right THEN right_child_index
                         ELSE IF take_left THEN left_child_index ELSE start_index
    IN  IF largest_index /= start_index
        THEN sift_down_right_vs_start(swap(s, start_index, largest_index), largest_index)
        ELSE s

RECURSIVE sift_down(_, _)
sift_down(s, start_index) ==
    LET left_child_index == 2 * start_index + 1
        right_child_index == 2 * start_index + 2
        left_child_value == Get(s, left_child_index)
        right_child_value == Get(s, right_child_index)
        start_value == Get(s, start_index)
        take_left == is_some(left_child_value) /\ OptGt(left_child_value, start_value)
        largest_value == IF take_left THEN left_child_value ELSE start_value
        take_right == is_some(right_child_value) /\ OptGt(right_child_value, largest_value)
        largest_index == IF take_right THEN right_child_index
                         ELSE IF take_left THEN left_child_index ELSE start_index
    IN  IF largest_index /= start_index
        THEN sift_down(swap(s, start_index, largest_index), largest_index)
        ELSE s

position_last_match(s, item) ==
    LET hits == {i \in 0..(Len(s) - 1) : At(s, i) = item} IN
    IF hits = {} THEN None
    ELSE Some(CHOOSE i \in hits : \A j \in hits : i >= j)

position_absent_is_root(s, item) ==
    LET hits == {i \in 0..(Len(s) - 1) : At(s, i) = item} IN
    IF hits = {} THEN (IF s = <<>> THEN None ELSE Some(0))
    ELSE Some(CHOOSE i \in hits : \A j \in hits : i <= j)

\* Iterator::position(|t| item == *t) : index of the first match, or None
position(s, item) ==
    LET hits == {i \in 0..(Len(s) - 1) : At(s, i) = item} IN
    IF hits = {} THEN None
    ELSE Some(CHOOSE i \in hits : \A j \in hits : i <= j)

\* ---- record of the operation that produced the current state: its name,
\* argument, result, the start indices of the sift_down calls it made, and
\* the array, handle, borrowed array and write mark it started from ----
Op(name, arg, ret, sifts) ==
    [op |-> name, arg |-> arg, ret |-> ret, sift_downs |-> sifts,
     before |-> items, handle_before |-> handle, borrowed |-> at_peek_mut,
     wrote_before |-> wrote]

NoHandle == handle = None
Running == panicked = "none"

Init ==
    /\ items = <<>>
    /\ handle = None
    /\ panicked = "none"
    /\ at_peek_mut = <<>>
    /\ wrote = FALSE
    /\ pushes = 0
    /\ removals = 0
    /\ phase = "pushes"
    /\ drained = <<>>
    /\ lastOp = Op("new", None, None, <<>>)

push ==
    /\ Running /\ NoHandle
    /\ len < MaxLen /\ pushes < MaxPushes
    /\ \E value \in Values :
        /\ items' = sift_up(Append(items, value))
        /\ lastOp' = Op("push", Some(value), None, <<>>)
    /\ pushes' = pushes + 1
    /\ phase' = IF phase = "pushes" THEN "pushes" ELSE "mixed"
    /\ drained' = <<>>
    /\ UNCHANGED <<handle, panicked, at_peek_mut, wrote, removals>>

\* push with the element range of the tests (1..5), on heaps of at most
\* ScenarioLen elements
push_scenario ==
    /\ Running /\ NoHandle
    /\ len < ScenarioLen /\ pushes < MaxPushes
    /\ \E value \in 1..ScenarioMax :
        /\ items' = sift_up(Append(items, value))
        /\ lastOp' = Op("push", Some(value), None, <<>>)
    /\ pushes' = pushes + 1
    /\ phase' = IF phase = "pushes" THEN "pushes" ELSE "mixed"
    /\ drained' = <<>>
    /\ UNCHANGED <<handle, panicked, at_peek_mut, wrote, removals>>

peek ==
    /\ Running /\ NoHandle
    /\ lastOp' = Op("peek", None, Get(items, 0), <<>>)
    /\ UNCHANGED <<items, handle, panicked, at_peek_mut, wrote, pushes, removals, phase, drained>>

\* `len - 1` on an empty Vec: a build with overflow checks panics at the
\* subtraction; a build without them wraps to usize::MAX and Vec::swap
\* panics on the out-of-range index.  Either way nothing is returned.
pop_empty ==
    /\ Running /\ NoHandle
    /\ len = 0
    /\ \E outcome \in {"subtract_overflow", "index_out_of_bounds"} : panicked' = outcome
    /\ lastOp' = Op("pop", None, None, <<>>)
    /\ UNCHANGED <<items, handle, at_peek_mut, wrote, pushes, removals, phase, drained>>

pop_nonempty ==
    /\ Running /\ NoHandle
    /\ len > 0
    /\ LET swapped == swap(items, 0, len - 1)
           largest == Get(swapped, len - 1)
       IN  /\ items' = sift_down(vec_pop(swapped), 0)
           /\ lastOp' = Op("pop", None, largest, <<0>>)
           /\ drained' = IF phase \in {"pushes", "pops"} THEN Append(drained, unwrap(largest)) ELSE <<>>
    /\ removals' = removals + 1
    /\ phase' = IF phase \in {"pushes", "pops"} THEN "pops" ELSE "mixed"
    /\ UNCHANGED <<handle, panicked, at_peek_mut, wrote, pushes>>

pop == pop_empty \/ pop_nonempty

\* the and_then closure of delete: array after, value returned, sift_down calls
delete_not_shrinking(s, item) ==
    LET found == position(s, item) IN
    IF found = None
    THEN [items |-> s, ret |-> None, sift_downs |-> <<>>]
    ELSE LET index == unwrap(found)
             swapped == swap(s, index, Len(s) - 1)
         IN  [items |-> sift_down(swapped, index),
              ret |-> Get(swapped, Len(s) - 1),
              sift_downs |-> <<index>>]

\* delete that repairs from the root instead of the vacated index
delete_sifts_from_root(s, item) ==
    LET found == position(s, item) IN
    IF found = None
    THEN [items |-> s, ret |-> None, sift_downs |-> <<>>]
    ELSE LET index == unwrap(found)
             swapped == swap(s, index, Len(s) - 1)
         IN  [items |-> sift_down(vec_pop(swapped), 0),
              ret |-> Get(swapped, Len(s) - 1),
              sift_downs |-> <<0>>]

delete_from(s, item) ==
    LET found == position(s, item) IN
    IF found = None
    THEN [items |-> s, ret |-> None, sift_downs |-> <<>>]
    ELSE LET index == unwrap(found)
             swapped == swap(s, index, Len(s) - 1)
         IN  [items |-> sift_down(vec_pop(swapped), index),
              ret |-> Get(swapped, Len(s) - 1),
              sift_downs |-> <<index>>]

delete ==
    /\ Running /\ NoHandle
    /\ \E item \in Values :
        LET r == delete_from(items, item) IN
        /\ items' = r.items
        /\ lastOp' = Op("delete", Some(item), r.ret, r.sift_downs)
        /\ IF is_some(r.ret)
           THEN removals' = removals + 1 /\ phase' = "mixed" /\ drained' = <<>>
           ELSE UNCHANGED <<removals, phase, drained>>
    /\ UNCHANGED <<handle, panicked, at_peek_mut, wrote, pushes>>

clear ==
    /\ Running /\ NoHandle
    /\ items' = <<>>
    /\ lastOp' = Op("clear", None, None, <<>>)
    /\ pushes' = 0
    /\ removals' = 0
    /\ phase' = "pushes"
    /\ drained' = <<>>
    /\ UNCHANGED <<handle, panicked, at_peek_mut, wrote>>

\* peek_mut without the is_empty test
peek_mut_unguarded ==
    /\ Running /\ NoHandle
    /\ handle' = Some([needs_sifting |-> FALSE])
    /\ at_peek_mut' = items
    /\ wrote' = FALSE
    /\ lastOp' = Op("peek_mut", None, Get(items, 0), <<>>)
    /\ UNCHANGED <<items, panicked, pushes, removals, phase, drained>>

peek_mut ==
    /\ Running /\ NoHandle
    /\ IF is_empty
       THEN /\ lastOp' = Op("peek_mut", None, None, <<>>)
            /\ UNCHANGED <<handle, at_peek_mut, wrote>>
       ELSE /\ handle' = Some([needs_sifting |-> FALSE])
            /\ at_peek_mut' = items
            /\ wrote' = FALSE
            /\ lastOp' = Op("peek_mut", None, Get(items, 0), <<>>)
    /\ UNCHANGED <<items, panicked, pushes, removals, phase, drained>>

\* a read dereference that goes through the mutable path
deref_marks_dirty ==
    /\ Running /\ ~NoHandle
    /\ lastOp' = Op("deref", None, Get(items, 0), <<>>)
    /\ handle' = Some([needs_sifting |-> TRUE])
    /\ UNCHANGED <<items, panicked, at_peek_mut, wrote, pushes, removals, phase, drained>>

deref ==
    /\ Running /\ ~NoHandle
    /\ lastOp' = Op("deref", None, Get(items, 0), <<>>)
    /\ UNCHANGED <<items, handle, panicked, at_peek_mut, wrote, pushes, removals, phase, drained>>

\* (peek_mut's recorded result is the root the returned handle points at)
\* deref_mut hands out &mut items[0]; the caller writes `value` through it
deref_mut ==
    /\ Running /\ ~NoHandle
    /\ \E value \in Values :
        /\ items' = [items EXCEPT ![1] = value]
        /\ lastOp' = Op("deref_mut", Some(value), None, <<>>)
    /\ handle' = Some([needs_sifting |-> TRUE])
    /\ wrote' = TRUE
    /\ phase' = "mixed"
    /\ drained' = <<>>
    /\ UNCHANGED <<panicked, at_peek_mut, pushes, removals>>

\* the sift_down calls Drop::drop makes, as their start indices
drop_always_sifts(h) == <<0>>

drop_never_sifts(h) == <<>>

drop_sift_downs(h) == IF h.needs_sifting THEN <<0>> ELSE <<>>

RECURSIVE run_sift_downs(_, _)
run_sift_downs(s, calls) ==
    IF calls = <<>> THEN s ELSE run_sift_downs(sift_down(s, Head(calls)), Tail(calls))

drop ==
    /\ Running /\ ~NoHandle
    /\ LET calls == drop_sift_downs(unwrap(handle)) IN
        /\ items' = run_sift_downs(items, calls)
        /\ lastOp' = Op("drop", None, None, calls)
    /\ handle' = None
    /\ at_peek_mut' = <<>>
    /\ wrote' = FALSE
    /\ UNCHANGED <<panicked, pushes, removals, phase, drained>>

Next == push \/ peek \/ pop \/ delete \/ clear \/ peek_mut \/ deref \/ deref_mut \/ drop

Spec == Init /\ [][Next]_vars

\* the callers that never use delete, clear or a pop on an empty heap
NextNoDelete == push \/ pop_nonempty \/ peek_mut \/ deref \/ deref_mut \/ drop

SpecNoDelete == Init /\ [][NextNoDelete]_vars

\* the callers of the tests: pushes of 1..5 and pops of non-empty heaps
NextScenario == push_scenario \/ pop_nonempty \/ peek

SpecScenario == Init /\ [][NextScenario]_vars

\* ---- the heap property of spec section 3 ----
IsHeap(s) ==
    \A i \in 0..(Len(s) - 1) :
        /\ (2 * i + 1 < Len(s) => ~(At(s, i) < At(s, 2 * i + 1)))
        /\ (2 * i + 2 < Len(s) => ~(At(s, i) < At(s, 2 * i + 2)))

\* ---- helpers of the properties ----
RECURSIVE Count(_, _)
Count(s, v) == IF s = <<>> THEN 0 ELSE (IF Head(s) = v THEN 1 ELSE 0) + Count(Tail(s), v)

NonIncreasing(s) == \A i \in 1..(Len(s) - 1) : s[i] >= s[i + 1]

IsMaximum(v, s) == \A k \in 1..Len(s) : ~(v < s[k])

Contains(s, v) == \E k \in 1..Len(s) : s[k] = v

FirstIndex(s, v) == CHOOSE i \in 0..(Len(s) - 1) : At(s, i) = v /\ \A j \in 0..(i - 1) : At(s, j) /= v

Between == Running /\ NoHandle

Dirty(h) == h /= None /\ unwrap(h).needs_sifting
Clean(h) == h /= None /\ ~unwrap(h).needs_sifting

\* C1: after any sequence of push, pop, delete and peek_mut-then-release
\* operations from a new heap, every element is not less than its children.
C1_HeapPropertyAlways == Between => IsHeap(items)

\* C2: pop on an empty heap returns None without a panic and leaves the heap
\* empty.
C2_PopEmptyReturnsNone ==
    (lastOp.op = "pop" /\ lastOp.before = <<>>) =>
        (panicked = "none" /\ lastOp.ret = None /\ items = <<>>)

\* C3: a heap built by pushes only and then popped yields non-increasing
\* values, and every pop on a non-empty heap returns the former root.
C3_PopOrder ==
    /\ phase = "pops" => NonIncreasing(drained)
    /\ (lastOp.op = "pop" /\ lastOp.before /= <<>>) =>
         (lastOp.ret = Some(At(lastOp.before, 0)) /\ panicked = "none")

C3_Witness ==
    /\ phase = "pops" /\ Len(drained) >= 4 /\ drained[1] > drained[4]
    /\ lastOp.op = "pop" /\ is_empty

\* C4: delete(v) of a present value on a heap satisfying the heap property
\* leaves a heap satisfying the heap property.
C4_DeletePreservesHeap ==
    (lastOp.op = "delete" /\ IsHeap(lastOp.before) /\ Contains(lastOp.before, unwrap(lastOp.arg))) =>
        IsHeap(items)

\* C5: delete(v) of a present value returns the element at the lowest index
\* equal to v, shrinks len by one, and leaves the previous multiset minus
\* that one element.
C5_DeleteRemovesOne ==
    (lastOp.op = "delete" /\ Contains(lastOp.before, unwrap(lastOp.arg))) =>
        LET v == unwrap(lastOp.arg) IN
        /\ lastOp.ret = Some(v)
        /\ lastOp.sift_downs = <<FirstIndex(lastOp.before, v)>>
        /\ len = Len(lastOp.before) - 1
        /\ \A w \in Values : Count(items, w) = Count(lastOp.before, w) - (IF w = v THEN 1 ELSE 0)

C5_Witness ==
    /\ lastOp.op = "delete" /\ lastOp.ret = Some(1) /\ lastOp.sift_downs = <<1>>
    /\ Count(lastOp.before, 1) >= 2 /\ len >= 3

\* C6: delete(v) of an absent value returns None, does not panic and leaves
\* the array unchanged.
C6_DeleteAbsent ==
    (lastOp.op = "delete" /\ ~Contains(lastOp.before, unwrap(lastOp.arg))) =>
        (lastOp.ret = None /\ panicked = "none" /\ items = lastOp.before)

C6_Witness ==
    /\ lastOp.op = "delete" /\ ~Contains(lastOp.before, unwrap(lastOp.arg))
    /\ Len(lastOp.before) >= 2

\* C7: the handle starts Clean, a read dereference keeps the flag, a mutable
\* dereference sets it and it stays set, and release makes exactly one
\* sift-down from index 0 when Dirty and none when Clean.
C7_HandleProtocol ==
    /\ (lastOp.op = "peek_mut" /\ handle /= None) => Clean(handle)
    /\ lastOp.op = "deref" => handle = lastOp.handle_before
    /\ lastOp.op = "deref_mut" => Dirty(handle)
    /\ (Dirty(lastOp.handle_before) /\ handle /= None) => Dirty(handle)
    /\ handle /= None => (Dirty(handle) <=> wrote)
    /\ (lastOp.op = "drop" /\ Dirty(lastOp.handle_before)) =>
         (lastOp.sift_downs = <<0>> /\ items = sift_down(lastOp.before, 0))
    /\ (lastOp.op = "drop" /\ Clean(lastOp.handle_before)) =>
         (lastOp.sift_downs = <<>> /\ items = lastOp.before)

C7_Witness ==
    /\ lastOp.op = "drop" /\ Dirty(lastOp.handle_before) /\ lastOp.wrote_before
    /\ items /= lastOp.before /\ len >= 3

\* C8: on a heap satisfying the heap property, peek_mut, a write to the root
\* of a value not greater than the old root, and release leave a heap that
\* satisfies the heap property with a maximum at the root.
LoweredRootReleased ==
    /\ lastOp.op = "drop" /\ Dirty(lastOp.handle_before)
    /\ IsHeap(lastOp.borrowed)
    /\ ~(At(lastOp.before, 0) > At(lastOp.borrowed, 0))
    /\ \A k \in 2..Len(lastOp.before) : lastOp.before[k] = lastOp.borrowed[k]

C8_PeekMutMutateLaw ==
    LoweredRootReleased => (IsHeap(items) /\ IsMaximum(At(items, 0), items))

C8_Witness ==
    /\ LoweredRootReleased
    /\ At(lastOp.before, 0) < At(lastOp.borrowed, 0)
    /\ len >= 4 /\ At(items, 0) > At(lastOp.before, 0) /\ At(items, 3) = At(lastOp.before, 0)

\* C9: peek_mut, read dereferences only, and release leave the array
\* identical to what it was before peek_mut.
C9_PeekMutNoOpLaw ==
    /\ (handle /= None /\ ~wrote) => items = at_peek_mut
    /\ (lastOp.op = "drop" /\ ~lastOp.wrote_before) => items = lastOp.borrowed

C9_Witness ==
    /\ lastOp.op = "drop" /\ ~lastOp.wrote_before
    /\ len >= 3 /\ sift_down(items, 0) /= items

\* C10: len() is the number of pushes minus the number of successful pops and
\* deletes since creation or the last clear, is_empty() holds exactly when
\* len() is 0, and peek, peek_mut-release, failed pop and failed delete keep
\* len().
C10_SizeInvariant ==
    /\ len = pushes - removals
    /\ is_empty <=> (pushes = removals)
    /\ (\/ lastOp.op \in {"peek", "peek_mut", "deref", "deref_mut", "drop"}
        \/ (lastOp.op \in {"pop", "delete"} /\ lastOp.ret = None)) => len = Len(lastOp.before)

C10_Witness ==
    /\ pushes >= 4 /\ removals >= 2 /\ len >= 2
    /\ lastOp.op = "delete" /\ lastOp.ret = None

\* C11: peek and peek_mut on an empty heap return None without a panic; peek
\* on a non-empty heap returns the element at index 0; peek never changes the
\* array and makes no sift.
C11_PeekAbsenceAndFrame ==
    /\ (lastOp.op = "peek" /\ lastOp.before = <<>>) => (lastOp.ret = None /\ panicked = "none")
    /\ (lastOp.op = "peek_mut" /\ lastOp.before = <<>>) =>
         (lastOp.ret = None /\ handle = None /\ panicked = "none")
    /\ (lastOp.op = "peek" /\ lastOp.before /= <<>>) => lastOp.ret = Some(At(lastOp.before, 0))
    /\ lastOp.op = "peek" => (items = lastOp.before /\ lastOp.sift_downs = <<>>)

C11_Witness == lastOp.op = "peek_mut" /\ lastOp.before = <<>> /\ lastOp.ret = None /\ pushes > 0

C11_WitnessPeekEmpty == lastOp.op = "peek" /\ lastOp.before = <<>> /\ lastOp.ret = None /\ pushes > 0

C11_WitnessPeekRoot ==
    /\ lastOp.op = "peek" /\ len >= 3 /\ lastOp.ret = Some(At(items, 0))
    /\ sift_down(items, 0) /= items

\* C12: after any sequence of push, pop, delete and peek_mut-then-release
\* that leaves the heap non-empty, the root is not less than any element of
\* the heap, and peek and the next pop return such an element.
C12_RootIsMaximum ==
    /\ (Between /\ ~is_empty) => IsMaximum(At(items, 0), items)
    /\ (lastOp.op \in {"peek", "pop"} /\ lastOp.handle_before = None /\ lastOp.before /= <<>>) =>
         (is_some(lastOp.ret) /\ IsMaximum(unwrap(lastOp.ret), lastOp.before))

\* C13: in sequences of push, pop on a non-empty heap and peek_mut-then-
\* release only, the heap property holds in every state between operations,
\* whatever value was written to the root.
C13_HeapPropertyWithoutDelete == Between => IsHeap(items)

C13_Witness ==
    /\ lastOp.op = "drop" /\ lastOp.wrote_before
    /\ Len(lastOp.before) >= 4 /\ ~IsHeap(lastOp.before)
    /\ At(lastOp.before, 0) /= At(lastOp.borrowed, 0)
    /\ removals >= 1 /\ IsHeap(items)

C13_WitnessRaisedRoot ==
    /\ lastOp.op = "drop" /\ lastOp.wrote_before
    /\ At(lastOp.before, 0) > At(lastOp.borrowed, 0) /\ len >= 3

\* ---- the rise of a pushed element, stated on the path to the root ----
RECURSIVE Ancestor(_, _)
Ancestor(i, k) == IF k = 0 THEN i ELSE Ancestor((i - 1) \div 2, k - 1)

RECURSIVE Depth(_)
Depth(i) == IF i = 0 THEN 0 ELSE 1 + Depth((i - 1) \div 2)

\* number of consecutive ancestors of the last slot, nearest first, that are
\* strictly less than the appended element
Rise(a) ==
    LET last == Len(a) - 1
        v == At(a, last)
        ok == {k \in 0..Depth(last) : \A j \in 1..k : At(a, Ancestor(last, j)) < v}
    IN  CHOOSE k \in ok : \A m \in ok : m <= k

\* the appended element sits Rise(a) levels up, the ancestors it passed each
\* moved one level down the path, every other slot is as it was
RisenFrom(r, a) ==
    LET last == Len(a) - 1
        k == Rise(a)
    IN  /\ Len(r) = Len(a)
        /\ At(r, Ancestor(last, k)) = At(a, last)
        /\ \A j \in 0..(k - 1) : At(r, Ancestor(last, j)) = At(a, Ancestor(last, j + 1))
        /\ \A i \in 0..last : (\A j \in 0..k : i /= Ancestor(last, j)) => At(r, i) = At(a, i)

\* C14: on push the appended element is swapped with its parent at
\* floor((i-1)/2) exactly while it is strictly greater (an equal parent stops
\* it) or until it is at index 0; a push onto an empty heap and a push of a
\* new maximum end without a panic with that element at index 0.
C14_SiftUpOnPush ==
    lastOp.op = "push" =>
        LET v == unwrap(lastOp.arg)
            a == Append(lastOp.before, v)
        IN  /\ panicked = "none"
            /\ RisenFrom(items, a)
            /\ lastOp.before = <<>> => items = <<v>>
            /\ (\A k \in 1..Len(lastOp.before) : lastOp.before[k] < v) => At(items, 0) = v

C14_Witness ==
    /\ lastOp.op = "push" /\ lastOp.arg = Some(3) /\ lastOp.before = <<5, 4, 2, 1>>
    /\ items = <<5, 4, 2, 1, 3>> /\ pushes = 5 /\ removals = 0

C14_WitnessEqualParent ==
    /\ lastOp.op = "push" /\ len >= 4 /\ items = Append(lastOp.before, unwrap(lastOp.arg))
    /\ At(items, index_of_parent(len - 1)) = unwrap(lastOp.arg)

C14_WitnessNewMaximum ==
    /\ lastOp.op = "push" /\ len = ScenarioLen /\ At(items, 0) = unwrap(lastOp.arg)
    /\ \A k \in 1..Len(lastOp.before) : lastOp.before[k] < unwrap(lastOp.arg)

\* ---- one step of sift-down, stated by the choice of the child ----
Children(s, i) == {c \in {2 * i + 1, 2 * i + 2} : c < Len(s)}

\* the child sift-down swaps with: strictly greater than the element at i,
\* not less than the other child, and the left one when the children are equal
ChosenChild(s, i, c) ==
    /\ c \in Children(s, i)
    /\ At(s, c) > At(s, i)
    /\ \A d \in Children(s, i) : At(s, c) >= At(s, d)
    /\ \A d \in Children(s, i) : (At(s, d) = At(s, c)) => c <= d

Settled(s, i) == i >= Len(s) \/ \A c \in Children(s, i) : ~(At(s, c) > At(s, i))

RECURSIVE SiftDownByChoice(_, _)
SiftDownByChoice(s, i) ==
    IF Settled(s, i) THEN s
    ELSE LET c == CHOOSE d \in Children(s, i) : ChosenChild(s, i, d)
         IN  SiftDownByChoice([s EXCEPT ![i + 1] = s[c + 1], ![c + 1] = s[i + 1]], c)

\* C15: sift-down from i swaps with a child only when that child is strictly
\* greater, takes the greater child and the left one on a tie, goes on from
\* the child's index, and swaps nothing when no child is greater or there is
\* no child.
C15_SiftDownChoice ==
    /\ \A i \in 0..len : sift_down(items, i) = SiftDownByChoice(items, i)
    /\ \A i \in 0..(len - 1) : Settled(items, i) => sift_down(items, i) = items
    /\ (lastOp.op = "drop" /\ lastOp.sift_downs = <<0>>) =>
         items = SiftDownByChoice(lastOp.before, 0)
    /\ (lastOp.op = "pop" /\ is_some(lastOp.ret)) =>
         items = SiftDownByChoice(vec_pop(swap(lastOp.before, 0, Len(lastOp.before) - 1)), 0)

C15_Witness ==
    /\ lastOp.op = "drop" /\ lastOp.sift_downs = <<0>> /\ Len(lastOp.before) >= 5
    /\ At(lastOp.before, 1) = At(lastOp.before, 2) /\ At(lastOp.before, 0) < At(lastOp.before, 1)
    /\ At(items, 0) = At(lastOp.before, 1) /\ At(items, 2) = At(lastOp.before, 2)
    /\ At(items, 1) /= At(lastOp.before, 0)

C15_WitnessRightChild ==
    /\ lastOp.op = "pop" /\ len >= 4 /\ At(lastOp.before, 2) > At(lastOp.before, 1)
    /\ At(items, 0) = At(lastOp.before, 2) /\ At(items, 1) = At(lastOp.before, 1)

\* ---- multisets of elements ----
Elements(s) == {s[k] : k \in 1..Len(s)}

SameMultiset(s, t) == \A w \in Elements(s) \cup Elements(t) : Count(s, w) = Count(t, w)

\* s holds the elements of t and one more copy of v
OneMore(s, t, v) ==
    \A w \in Elements(s) \cup Elements(t) \cup {v} :
        Count(s, w) = Count(t, w) + (IF w = v THEN 1 ELSE 0)

\* C16: the array holds the values pushed minus the values returned by
\* successful pops and deletes, a write through the handle replaces exactly
\* the root, and the sifts of push, pop, delete and drop only permute.
C16_ElementConservation ==
    /\ lastOp.op = "push" => OneMore(items, lastOp.before, unwrap(lastOp.arg))
    /\ (lastOp.op \in {"pop", "delete"} /\ is_some(lastOp.ret)) =>
         OneMore(lastOp.before, items, unwrap(lastOp.ret))
    /\ (lastOp.op \in {"pop", "delete"} /\ lastOp.ret = None) => items = lastOp.before
    /\ lastOp.op = "deref_mut" => items = [lastOp.before EXCEPT ![1] = unwrap(lastOp.arg)]
    /\ lastOp.op = "drop" => SameMultiset(items, lastOp.before)
    /\ lastOp.op \in {"peek", "peek_mut", "deref"} => items = lastOp.before
    /\ lastOp.op \in {"clear", "new"} => items = <<>>
    /\ \A i \in 0..len : SameMultiset(sift_down(items, i), items)
    /\ ~is_empty => SameMultiset(sift_up(items), items)

C16_Witness ==
    /\ lastOp.op = "delete" /\ is_some(lastOp.ret) /\ len >= 4
    /\ lastOp.sift_downs = <<0>> /\ At(items, 1) /= At(lastOp.before, 1)
    /\ Count(lastOp.before, unwrap(lastOp.ret)) = 2

C16_WitnessDrop ==
    /\ lastOp.op = "drop" /\ items /= lastOp.before /\ len >= 4

\* C17: a delete whose first match is the last element, and a pop or delete
\* on a one-element heap, end without a panic, return that element and leave
\* every other element where it was; the sift-down then starts at the new len
\* and does nothing.
C17_RemovalAtEnd ==
    /\ (/\ lastOp.op = "delete"
        /\ Contains(lastOp.before, unwrap(lastOp.arg))
        /\ FirstIndex(lastOp.before, unwrap(lastOp.arg)) = Len(lastOp.before) - 1) =>
         /\ panicked = "none"
         /\ lastOp.ret = lastOp.arg
         /\ lastOp.sift_downs = <<len>>
         /\ items = SubSeq(lastOp.before, 1, Len(lastOp.before) - 1)
    /\ (lastOp.op = "pop" /\ Len(lastOp.before) = 1) =>
         (panicked = "none" /\ lastOp.ret = Some(lastOp.before[1]) /\ items = <<>>)
    /\ (lastOp.op = "delete" /\ lastOp.before = <<unwrap(lastOp.arg)>>) =>
         (panicked = "none" /\ lastOp.ret = lastOp.arg /\ items = <<>>)

C17_Witness ==
    /\ lastOp.op = "delete" /\ is_some(lastOp.ret) /\ len >= 3
    /\ FirstIndex(lastOp.before, unwrap(lastOp.arg)) = len
    /\ sift_down(items, 0) /= items

C17_WitnessOneElement ==
    /\ lastOp.op \in {"pop", "delete"} /\ Len(lastOp.before) = 1 /\ is_some(lastOp.ret)
    /\ items = <<>> /\ pushes >= 2

TypeOK ==
    /\ items \in Seq(Values) /\ Len(items) <= MaxLen
    /\ handle \in {None, Some([needs_sifting |-> FALSE]), Some([needs_sifting |-> TRUE])}
    /\ panicked \in {"none", "subtract_overflow", "index_out_of_bounds"}
    /\ pushes \in 0..MaxPushes /\ removals \in 0..MaxPushes
    /\ phase \in {"pushes", "pops", "mixed"}
    /\ wrote \in BOOLEAN
====
